---- MODULE Spec2Model ----
(***************************************************************************)
(* The transcription job controller of konnektaro-ai:                      *)
(* WhisperService.transcribe (cache lookup, ffmpeg preprocessing, the      *)
(* whisper subprocess and its 'close' / 'error' handlers), the result      *)
(* cache, and the admission controller (acquireSlot / releaseSlot) that    *)
(* TranscriptionController.getQueueStatus reports on.                      *)
(*                                                                         *)
(* Node runs each synchronous segment of a handler to completion, and the  *)
(* promise continuations it schedules run before the next event: one       *)
(* action is one event handler together with the continuations it wakes.   *)
(***************************************************************************)
EXTENDS Integers, Sequences, FiniteSets, TLC

(* ---------------------------------------------------------------- bounds *)
NumReq == 3
NumBytes == 2
MaxClock == 2

(* admission configuration: the number of admission slots *)
maxConcurrent == 1

Req == 1..NumReq
Bytes == 1..NumBytes

(* config.whisper.model / config.whisper.language *)
configModel == "tiny"
configLanguage == "en"

(* req.body.language || req.query.language || 'en': the second request     *)
(* asks for Spanish, the others send no language                           *)
Languages == {"en", "es"}
requestedLanguage(r) == IF r = 2 THEN "es" ELSE "en"

(* what a recognizer run may leave in its <basename>.txt artifact *)
RawTexts == { <<" ", "h", "i", "\n">> }

(* what a recognizer run may write to its standard error *)
StderrTexts == { <<"w", "a", "r", "n">> }

VARIABLES
  pc,            \* per request: idle, preproc, queued, running, errored, done
  bytes,         \* content of the request's input file (<<>> until read)
  fileHash,      \* const fileHash of transcribe: <<>> or <<digest>>
  finalPath,     \* const finalAudioPath of transcribe: <<>> or <<path>>
  outcome,       \* the promise of transcribe: none, resolved, rejected
  result,        \* the value it resolved with: <<>> or <<TranscriptionResult>>
  errMsg,        \* the message it rejected with: <<>> or <<fixed part, detail>>
  startTime,     \* per request: the clock when its transcribe started
  busyAtHit,     \* per request: its lookup hit while every slot was taken and a request waited
  stderr,        \* let stderr of transcribe: the text captured from whisper
  fs,            \* the file system: path -> <<>> (absent) or <<content>>
  cache,         \* cacheDir: digest -> <<>> (no file) or <<file content>>
  running,       \* admission state: slots in use
  waitList,      \* admission state: FIFO of suspended callers
  now,           \* the last reading of Date.now()
  \* history of the run, read by the properties only
  acquired,      \* per request: slots acquired
  released,      \* per request: slots released
  waited,        \* per request: the slot it awaits or holds came through waitList
  whisperCalls,  \* per request: spawn('whisper') calls
  ffmpegCalls,   \* per request: spawn('ffmpeg') calls
  unlinks,       \* per request: unlinkSync(finalAudioPath) calls
  exitPath,      \* per request: how recognition ended
  before,        \* per request: the requests resolved when it started
  wroteCache,    \* per request: saveCachedTranscription wrote the file
  cacheRead,     \* per request: miss (no file), hit, failed (the read threw)
  \* the HTTP handler transcribeAudio and its module
  responses,     \* per request: the responses sent, in order
  performanceMetrics, \* let performanceMetrics of the controller
  counted,       \* history: the requests answered with success since the last reset
  exited         \* process.exit(1) was called

vars == << pc, bytes, fileHash, finalPath, outcome, result, errMsg, stderr, startTime, busyAtHit, fs, cache,
           running, waitList, now, acquired, released, waited,
           whisperCalls, ffmpegCalls, unlinks, exitPath, before, wroteCache,
           cacheRead, responses, performanceMetrics, counted, exited >>

(* the state of transcriptionController.ts and of the process *)
ctl == << responses, performanceMetrics, counted, exited >>

hist == << acquired, released, waited, whisperCalls, ffmpegCalls, unlinks, exitPath,
           before, wroteCache, cacheRead >>

(* ----------------------------------------------------------------- paths *)
(* A path is its base name, whether the base name ends in "_processed",    *)
(* and its extension. multer names each upload audio-<time>-<random><ext>, *)
(* so the uploads of two requests have different base names.               *)
Path == [name : Req, proc : BOOLEAN, ext : {"mp3", "wav", "txt"}]

InputPath(r) == [name |-> r, proc |-> FALSE, ext |-> "mp3"]

(* inputPath.replace(/\.[^/.]+$/, '_processed.wav') *)
PreprocessPath(p) == [name |-> p.name, proc |-> TRUE, ext |-> "wav"]

(* path.join(outputDir, basename(finalAudioPath, extname(finalAudioPath)) + '.txt') *)
TxtFile(p) == [name |-> p.name, proc |-> p.proc, ext |-> "txt"]

Exists(f, p) == f[p] # <<>>

(* ------------------------------------------------------------ the result *)
IsSpace(c) == c \in {" ", "\n"}

RECURSIVE TrimLeft(_)
TrimLeft(s) == IF s # <<>> /\ IsSpace(Head(s)) THEN TrimLeft(Tail(s)) ELSE s

RECURSIVE TrimRight(_)
TrimRight(s) ==
  IF s # <<>> /\ IsSpace(s[Len(s)]) THEN TrimRight(SubSeq(s, 1, Len(s) - 1)) ELSE s

(* only the leading whitespace is removed *)
TrimLeftOnly(s) == TrimLeft(s)

(* String.prototype.trim *)
Trim(s) == TrimRight(TrimLeft(s))

(* the result object built in the 'close' handler, lang the language      *)
(* whisper was run with                                                    *)
MakeResult(raw, lang, t) ==
  [text |-> Trim(raw), model |-> configModel, language |-> lang,
   processingTime |-> t]

(* The language request r has whisper run with, '--language' in            *)
(* whisperArgs: transcribe(audioFilePath) declares one parameter, and the  *)
(* language the controller passes as third argument is not read.           *)
recognizeLanguage(r) == configLanguage

(* ------------------------------------------------------------- the cache *)
(* the language asked for is mixed into the digest *)
getFileHashWithLanguage(f, p) ==
  IF requestedLanguage(p.name) = configLanguage THEN f[p][1]
  ELSE (f[p][1] % NumBytes) + 1

(* crypto.createHash('md5').update(fileBuffer).digest('hex'): the digest   *)
(* of a content is that content's index; different contents, different     *)
(* digests.                                                                *)
getFileHash(f, p) == f[p][1]

(* JSON.stringify(result, null, 2): the fields in the order of the object  *)
Stringify(res) == << <<"text", res.text>>, <<"model", res.model>>,
                     <<"language", res.language>>,
                     <<"processingTime", res.processingTime>> >>

Field(doc, key) == (CHOOSE kv \in {doc[i] : i \in DOMAIN doc} : kv[1] = key)[2]

(* the language read from the wrong field *)
ParseWrongField(doc) ==
  [text |-> Field(doc, "text"), model |-> Field(doc, "model"),
   language |-> Field(doc, "model"),
   processingTime |-> Field(doc, "processingTime")]

(* JSON.parse of a cache file *)
Parse(doc) == [text |-> Field(doc, "text"), model |-> Field(doc, "model"),
               language |-> Field(doc, "language"),
               processingTime |-> Field(doc, "processingTime")]

(* a read without the try: what the failed read left is returned *)
getCachedTranscriptionNoCatch(c, h, readOk) ==
  IF c[h] # <<>> THEN << Parse(c[h][1]) >> ELSE <<>>

(* getCachedTranscription: <<>> for null. readOk = FALSE: readFileSync or  *)
(* JSON.parse threw, which is caught and logged.                           *)
getCachedTranscription(c, h, readOk) ==
  IF c[h] # <<>> /\ readOk THEN << Parse(c[h][1]) >> ELSE <<>>

(* the cache file's name does not depend on the fingerprint *)
saveCachedTranscriptionOneFile(c, h, res, writeOk) ==
  IF writeOk THEN [g \in DOMAIN c |-> << Stringify(res) >>] ELSE c

(* a write that fails removes the file it could not write *)
saveCachedTranscriptionRemovesOnFail(c, h, res, writeOk) ==
  IF writeOk THEN [c EXCEPT ![h] = << Stringify(res) >>] ELSE [c EXCEPT ![h] = <<>>]

(* saveCachedTranscription: writeOk = FALSE: writeFileSync threw, which is *)
(* caught and logged.                                                      *)
saveCachedTranscription(c, h, res, writeOk) ==
  IF writeOk THEN [c EXCEPT ![h] = << Stringify(res) >>] ELSE c

(* ------------------------------------------------------------- admission *)
(* a bound checked one too late *)
SlotFreeOffByOne(run) == run <= maxConcurrent

(* acquireSlot grants at once while a slot is free *)
SlotFree(run) == run < maxConcurrent

(* the caller pushed at the front of the list *)
WaitListPushFront(wl, r) == <<r>> \o wl

(* acquireSlot without a free slot: the caller joins the tail of the list  *)
WaitListAfterAcquire(wl, r) == Append(wl, r)

(* the slot handed to the head waiter is not counted again *)
RunningNotReincremented(run, wl) == run - 1

(* the slot is handed over, and given back only when nobody waits: it is   *)
(* never decremented                                                       *)
RunningNeverDecremented(run, wl) == run

(* the woken waiter stays in the list *)
WaitListHeadKept(wl) == wl

(* releaseSlot: running decrements; the head waiter, if any, takes the     *)
(* slot in the same operation, so running increments again.                *)
RunningAfterRelease(run, wl) == IF wl # <<>> THEN (run - 1) + 1 ELSE run - 1

WaitListAfterRelease(wl) == IF wl # <<>> THEN Tail(wl) ELSE wl

(* nobody is woken: the head waiter is dropped from the list *)
WokenNobody(wl) == {}

(* the newest waiter is woken instead of the oldest *)
WokenLast(wl) == IF wl # <<>> THEN {wl[Len(wl)]} ELSE {}

(* the waiter that releaseSlot wakes *)
Woken(wl) == IF wl # <<>> THEN {Head(wl)} ELSE {}

Settled(r) == outcome[r] # "none"

ResolvedSet == {r \in Req : outcome[r] = "resolved"}

(* ------------------------------------------------------------------ Init *)
Init ==
  /\ pc = [r \in Req |-> "idle"]
  /\ bytes = [r \in Req |-> <<>>]
  /\ fileHash = [r \in Req |-> <<>>]
  /\ finalPath = [r \in Req |-> <<>>]
  /\ outcome = [r \in Req |-> "none"]
  /\ result = [r \in Req |-> <<>>]
  /\ errMsg = [r \in Req |-> <<>>]
  /\ stderr = [r \in Req |-> <<>>]
  /\ startTime = [r \in Req |-> 0]
  /\ busyAtHit = [r \in Req |-> FALSE]
  /\ responses = [r \in Req |-> <<>>]
  /\ performanceMetrics = [totalTranscriptions |-> 0,
                           averageProcessingTime |-> <<0, 1>>,
                           totalProcessingTime |-> 0]
  /\ counted = {}
  /\ exited = FALSE
  /\ fs = [p \in Path |-> <<>>]
  /\ cache = [h \in Bytes |-> <<>>]
  /\ running = 0
  /\ waitList = <<>>
  /\ now = 0
  /\ acquired = [r \in Req |-> 0]
  /\ released = [r \in Req |-> 0]
  /\ waited = [r \in Req |-> FALSE]
  /\ whisperCalls = [r \in Req |-> 0]
  /\ ffmpegCalls = [r \in Req |-> 0]
  /\ unlinks = [r \in Req |-> 0]
  /\ exitPath = [r \in Req |-> "none"]
  /\ before = [r \in Req |-> {}]
  /\ wroteCache = [r \in Req |-> FALSE]
  /\ cacheRead = [r \in Req |-> "none"]

(* --------------------------------------------------------------- actions *)
(* Requests are numbered in the order of their calls of transcribe. *)
Arrived(r) == \A q \in Req : q < r => pc[q] # "idle"

(* no check of the input file: the call goes on to preprocessing *)
TranscribeMissingUnchecked(r) ==
  /\ pc[r] = "idle"
  /\ Arrived(r)
  /\ ~Exists(fs, InputPath(r))
  /\ pc' = [pc EXCEPT ![r] = "preproc"]
  /\ ffmpegCalls' = [ffmpegCalls EXCEPT ![r] = @ + 1]
  /\ before' = [before EXCEPT ![r] = ResolvedSet]
  /\ UNCHANGED << bytes, fileHash, finalPath, outcome, result, errMsg, stderr, startTime, busyAtHit, ctl, fs,
                  cache, running, waitList, now, acquired, released, waited,
                  whisperCalls, unlinks, exitPath, wroteCache, cacheRead >>

(* transcribe(audioFilePath), up to its first await.  present: the caller  *)
(* stored the file (with content b) before the call.                       *)
TranscribeMissing(r) ==
  /\ pc[r] = "idle"
  /\ Arrived(r)
  /\ ~Exists(fs, InputPath(r))
  /\ pc' = [pc EXCEPT ![r] = "done"]
  /\ outcome' = [outcome EXCEPT ![r] = "rejected"]
  /\ errMsg' = [errMsg EXCEPT ![r] =
                  << "Audio processing error: ", "Audio file not found" >>]
  /\ before' = [before EXCEPT ![r] = ResolvedSet]
  /\ UNCHANGED << bytes, fileHash, finalPath, result, stderr, startTime, busyAtHit, ctl, fs, cache, running,
                  waitList, now, acquired, released, waited, whisperCalls,
                  ffmpegCalls, unlinks, exitPath, wroteCache, cacheRead >>

(* resolve(cached) without the return: the call goes on to preprocessing   *)
TranscribeStartNoReturn(r, b, readOk) ==
  /\ pc[r] = "idle"
  /\ Arrived(r)
  /\ LET p == InputPath(r)
         fs1 == [fs EXCEPT ![p] = <<b>>]
         h == getFileHash(fs1, p)
         cached == getCachedTranscription(cache, h, readOk)
     IN /\ fs' = fs1
        /\ bytes' = [bytes EXCEPT ![r] = <<b>>]
        /\ fileHash' = [fileHash EXCEPT ![r] = <<h>>]
        /\ before' = [before EXCEPT ![r] = ResolvedSet]
        /\ cacheRead' = [cacheRead EXCEPT ![r] =
                           IF cache[h] = <<>> THEN "miss"
                           ELSE IF readOk THEN "hit" ELSE "failed"]
        /\ busyAtHit' = [busyAtHit EXCEPT ![r] =
                           /\ cached # <<>>
                           /\ running = maxConcurrent
                           /\ waitList # <<>>]
        /\ pc' = [pc EXCEPT ![r] = "preproc"]
        /\ ffmpegCalls' = [ffmpegCalls EXCEPT ![r] = @ + 1]
        /\ IF cached # <<>>
           THEN /\ outcome' = [outcome EXCEPT ![r] = "resolved"]
                /\ result' = [result EXCEPT ![r] = cached]
           ELSE UNCHANGED << outcome, result >>
  /\ startTime' = [startTime EXCEPT ![r] = now]
  /\ UNCHANGED ctl
  /\ UNCHANGED << finalPath, errMsg, stderr, cache, running, waitList, now,
                  acquired, released, waited, whisperCalls, unlinks, exitPath,
                  wroteCache >>

TranscribeStart(r, b, readOk) ==
  /\ pc[r] = "idle"
  /\ Arrived(r)
  /\ LET p == InputPath(r)
         fs1 == [fs EXCEPT ![p] = <<b>>]
         h == getFileHash(fs1, p)
         cached == getCachedTranscription(cache, h, readOk)
     IN /\ fs' = fs1
        /\ bytes' = [bytes EXCEPT ![r] = <<b>>]
        /\ fileHash' = [fileHash EXCEPT ![r] = <<h>>]
        /\ before' = [before EXCEPT ![r] = ResolvedSet]
        /\ cacheRead' = [cacheRead EXCEPT ![r] =
                           IF cache[h] = <<>> THEN "miss"
                           ELSE IF readOk THEN "hit" ELSE "failed"]
        /\ busyAtHit' = [busyAtHit EXCEPT ![r] =
                           /\ cached # <<>>
                           /\ running = maxConcurrent
                           /\ waitList # <<>>]
        /\ IF cached # <<>>
           THEN /\ pc' = [pc EXCEPT ![r] = "done"]
                /\ outcome' = [outcome EXCEPT ![r] = "resolved"]
                /\ result' = [result EXCEPT ![r] = cached]
                /\ UNCHANGED ffmpegCalls
           ELSE /\ pc' = [pc EXCEPT ![r] = "preproc"]
                /\ ffmpegCalls' = [ffmpegCalls EXCEPT ![r] = @ + 1]
                /\ UNCHANGED << outcome, result >>
  /\ startTime' = [startTime EXCEPT ![r] = now]
  /\ UNCHANGED ctl
  /\ UNCHANGED << finalPath, errMsg, stderr, cache, running, waitList, now,
                  acquired, released, waited, whisperCalls, unlinks, exitPath,
                  wroteCache >>

(* the output path is returned whatever became of ffmpeg *)
preprocessAudioAlwaysOutput(f, inputPath, how) == PreprocessPath(inputPath)

(* preprocessAudio: what the promise resolves with.  how: ok (ffmpeg exit  *)
(* 0, output written), ok_nofile (exit 0, nothing written), fail (exit     *)
(* non-zero), launch ('error': ffmpeg not available).  f is the file       *)
(* system when 'close' or 'error' is handled.  A 'close' that follows an   *)
(* 'error' calls resolve on a settled promise and changes nothing.         *)
preprocessAudio(f, inputPath, how) ==
  IF how \in {"ok", "ok_nofile"} /\ Exists(f, PreprocessPath(inputPath))
  THEN PreprocessPath(inputPath)
  ELSE inputPath

(* ffmpeg -ar 16000 -ac 1 -acodec pcm_s16le: the output is another content *)
(* than the input, and different inputs give different outputs             *)
Resample(b) == NumBytes + b

(* what ffmpeg leaves on disk *)
FfmpegWrites(f, inputPath, how) ==
  IF how = "ok" /\ Exists(f, inputPath)
  THEN [f EXCEPT ![PreprocessPath(inputPath)] = << Resample(f[inputPath][1]) >>]
  ELSE f

(* acquireSlot as transcribe calls it: with a free slot the caller goes on *)
(* to spawn('whisper') at once; otherwise it is suspended in waitList.     *)
AcquireSlot(r) ==
  IF SlotFree(running)
  THEN /\ running' = running + 1
       /\ pc' = [pc EXCEPT ![r] = "running"]
       /\ acquired' = [acquired EXCEPT ![r] = @ + 1]
       /\ whisperCalls' = [whisperCalls EXCEPT ![r] = @ + 1]
       /\ UNCHANGED << waitList, waited >>
  ELSE /\ waitList' = WaitListAfterAcquire(waitList, r)
       /\ waited' = [waited EXCEPT ![r] = TRUE]
       /\ pc' = [pc EXCEPT ![r] = "queued"]
       /\ UNCHANGED << running, acquired, whisperCalls >>

(* The continuation of `await this.preprocessAudio(...)`: finalAudioPath,  *)
(* then acquireSlot, then (with a slot) spawn('whisper').                  *)
FfmpegExit(r, how) ==
  /\ pc[r] = "preproc"
  /\ LET inp == InputPath(r)
         fs1 == FfmpegWrites(fs, inp, how)
         processedAudioPath == preprocessAudio(fs1, inp, how)
     IN /\ fs' = fs1
        /\ finalPath' = [finalPath EXCEPT ![r] =
             << IF processedAudioPath # inp THEN processedAudioPath ELSE inp >>]
  /\ AcquireSlot(r)
  /\ UNCHANGED << bytes, fileHash, outcome, result, errMsg, stderr, startTime, busyAtHit, ctl, cache, now,
                  released, ffmpegCalls, unlinks, exitPath, before,
                  wroteCache, cacheRead >>

(* What the whisper subprocess leaves in outputDir before it exits: art is *)
(* <<>> (nothing) or <<raw>>, the content of <basename>.txt.               *)
RecognizerWrites(f, fin, art) ==
  IF art # <<>> THEN [f EXCEPT ![TxtFile(fin)] = art] ELSE f

(* the slot is released in the 'close' handler only: a failed launch keeps  *)
(* it                                                                      *)
ReleaseOnCloseOnly(r, newpc) ==
  IF newpc = "errored"
  THEN /\ pc' = [pc EXCEPT ![r] = newpc]
       /\ UNCHANGED << running, waitList, released, acquired, whisperCalls, waited >>
  ELSE /\ running' = RunningAfterRelease(running, waitList)
       /\ waitList' = WaitListAfterRelease(waitList)
       /\ pc' = [q \in Req |-> IF q = r THEN newpc
                               ELSE IF q \in Woken(waitList) THEN "running"
                               ELSE pc[q]]
       /\ released' = [released EXCEPT ![r] = @ + 1]
       /\ acquired' = [q \in Req |-> IF q \in Woken(waitList) THEN acquired[q] + 1
                                     ELSE acquired[q]]
       /\ whisperCalls' = [q \in Req |-> IF q \in Woken(waitList)
                                         THEN whisperCalls[q] + 1
                                         ELSE whisperCalls[q]]
       /\ waited' = [waited EXCEPT ![r] = FALSE]

(* The orchestrator's release of the slot when recognition has settled,    *)
(* and releaseSlot's wake-up of the head waiter, which then spawns its own *)
(* whisper process.  newpc is where request r goes.                        *)
ReleaseAndWake(r, newpc) ==
  /\ running' = RunningAfterRelease(running, waitList)
  /\ waitList' = WaitListAfterRelease(waitList)
  /\ pc' = [q \in Req |-> IF q = r THEN newpc
                          ELSE IF q \in Woken(waitList) THEN "running"
                          ELSE pc[q]]
  /\ released' = [released EXCEPT ![r] = @ + 1]
  /\ acquired' = [q \in Req |-> IF q \in Woken(waitList) THEN acquired[q] + 1
                                ELSE acquired[q]]
  /\ whisperCalls' = [q \in Req |-> IF q \in Woken(waitList)
                                    THEN whisperCalls[q] + 1
                                    ELSE whisperCalls[q]]
  /\ waited' = [waited EXCEPT ![r] = FALSE]

(* finalAudioPath is unlinked without comparing it with audioFilePath *)
UnlinksFinalAlways(f, inp, fin, code) ==
  /\ (code = 0 => Exists(f, TxtFile(fin)))
  /\ Exists(f, fin)

(* whether the 'close' handler's branch for `code` unlinks finalAudioPath: *)
(* the branch with the output file present, and the non-zero branch        *)
UnlinksProcessed(f, inp, fin, code) ==
  /\ (code = 0 => Exists(f, TxtFile(fin)))
  /\ fin # inp
  /\ Exists(f, fin)

(* the file system after the 'close' handler *)
CloseFs(f, inp, fin, code) ==
  LET f1 == IF code = 0 /\ Exists(f, TxtFile(fin))
            THEN [f EXCEPT ![TxtFile(fin)] = <<>>] ELSE f
  IN IF UnlinksProcessed(f, inp, fin, code) THEN [f1 EXCEPT ![fin] = <<>>] ELSE f1

(* the exit code is not looked at *)
RecognitionSucceededAnyExit(code, f, txt) == Exists(f, txt)

(* the branch of the 'close' handler that builds and caches a result:      *)
(* code === 0 and fs.existsSync(txtFile)                                   *)
RecognitionSucceeded(code, f, txt) == code = 0 /\ Exists(f, txt)

(* the cache entry is keyed by the digest of the file whisper was run on   *)
SaveKeyOfFinalAudio(r, f, fin) == getFileHash(f, fin)

(* saveCachedTranscription(fileHash, result): fileHash is the constant     *)
(* that transcribe computed before the cache lookup                        *)
SaveKey(r, f, fin) == fileHash[r][1]

(* whisperProcess.on('close'), first settlement of the promise.            *)
(* art: what the process wrote.  err: what it wrote to its standard error, *)
(* collected by the 'data' handler.  code: its exit code.  dt: the time    *)
(* since the last reading of the clock.  writeOk: writeFileSync of the     *)
(* cache file worked.                                                      *)
WhisperClose(r, art, err, code, dt, writeOk) ==
  /\ pc[r] = "running"
  /\ now + dt <= MaxClock
  /\ stderr' = [stderr EXCEPT ![r] = err]
  /\ UNCHANGED << startTime, busyAtHit, ctl >>
  /\ LET inp == InputPath(r)
         fin == finalPath[r][1]
         txt == TxtFile(fin)
         fs1 == RecognizerWrites(fs, fin, art)
         success == RecognitionSucceeded(code, fs1, txt)
         res == MakeResult(fs1[txt][1], recognizeLanguage(r), now + dt)
     IN /\ fs' = CloseFs(fs1, inp, fin, code)
        /\ unlinks' = [unlinks EXCEPT ![r] =
                         IF UnlinksProcessed(fs1, inp, fin, code) THEN @ + 1 ELSE @]
        /\ IF success
           THEN /\ cache' = saveCachedTranscription(cache, SaveKey(r, fs1, fin), res, writeOk)
                /\ wroteCache' = [wroteCache EXCEPT ![r] = writeOk]
                /\ outcome' = [outcome EXCEPT ![r] = "resolved"]
                /\ result' = [result EXCEPT ![r] = <<res>>]
                /\ now' = now + dt
                /\ UNCHANGED errMsg
           ELSE /\ outcome' = [outcome EXCEPT ![r] = "rejected"]
                /\ errMsg' = [errMsg EXCEPT ![r] =
                                IF code = 0
                                THEN << "Whisper output file not found", <<>> >>
                                ELSE << "Whisper process failed: ", err >>]
                /\ UNCHANGED << cache, wroteCache, result, now >>
        /\ exitPath' = [exitPath EXCEPT ![r] =
                          IF code # 0 THEN "nonzero"
                          ELSE IF Exists(fs1, txt) THEN "ok" ELSE "noart"]
  /\ ReleaseAndWake(r, "done")
  /\ UNCHANGED << bytes, fileHash, finalPath, ffmpegCalls, before,
                  cacheRead >>

(* whisperProcess.on('error'): the process could not be launched.  Node    *)
(* may still deliver 'close' afterwards.                                   *)
WhisperError(r) ==
  /\ pc[r] = "running"
  /\ outcome' = [outcome EXCEPT ![r] = "rejected"]
  /\ errMsg' = [errMsg EXCEPT ![r] = << "Failed to start Whisper: ", "message" >>]
  /\ exitPath' = [exitPath EXCEPT ![r] = "launch"]
  /\ ReleaseAndWake(r, "errored")
  /\ UNCHANGED << bytes, fileHash, finalPath, result, stderr, startTime, busyAtHit, ctl, fs, cache, now,
                  ffmpegCalls, unlinks, before, wroteCache, cacheRead >>

(* 'close' after 'error': the exit code of a failed spawn is not 0, the    *)
(* handler's non-zero branch runs, and its reject finds the promise        *)
(* settled.                                                                *)
WhisperCloseAfterError(r) ==
  /\ pc[r] = "errored"
  /\ LET inp == InputPath(r)
         fin == finalPath[r][1]
     IN /\ fs' = CloseFs(fs, inp, fin, 1)
        /\ unlinks' = [unlinks EXCEPT ![r] =
                         IF UnlinksProcessed(fs, inp, fin, 1) THEN @ + 1 ELSE @]
  /\ pc' = [pc EXCEPT ![r] = "done"]
  /\ UNCHANGED << bytes, fileHash, finalPath, outcome, result, errMsg, stderr, startTime, busyAtHit, ctl,
                  cache, running, waitList, now, acquired, released, waited,
                  whisperCalls, ffmpegCalls, exitPath, before, wroteCache,
                  cacheRead >>

Next ==
  \/ \E r \in Req : TranscribeMissing(r)
  \/ \E r \in Req, b \in Bytes, readOk \in BOOLEAN : TranscribeStart(r, b, readOk)
  \/ \E r \in Req, how \in {"ok", "ok_nofile", "fail", "launch"} : FfmpegExit(r, how)
  \/ \E r \in Req, art \in {<<>>} \cup {<<raw>> : raw \in RawTexts},
        err \in StderrTexts, code \in {0, 1}, dt \in {0, 1}, writeOk \in BOOLEAN :
       WhisperClose(r, art, err, code, dt, writeOk)
  \/ \E r \in Req : WhisperError(r)
  \/ \E r \in Req : WhisperCloseAfterError(r)

Spec == Init /\ [][Next]_vars

(* The cache directory outlives the process: ensureCacheDir creates it     *)
(* only when it is missing.  WarmCache is a directory in which an earlier  *)
(* run of the service left the entry of content 1.                         *)
WarmCache ==
  [h \in Bytes |->
     IF h = 1
     THEN << Stringify(MakeResult(CHOOSE raw \in RawTexts : TRUE, configLanguage, 0)) >>
     ELSE <<>>]

WarmInit ==
  /\ pc = [r \in Req |-> "idle"]
  /\ bytes = [r \in Req |-> <<>>]
  /\ fileHash = [r \in Req |-> <<>>]
  /\ finalPath = [r \in Req |-> <<>>]
  /\ outcome = [r \in Req |-> "none"]
  /\ result = [r \in Req |-> <<>>]
  /\ errMsg = [r \in Req |-> <<>>]
  /\ stderr = [r \in Req |-> <<>>]
  /\ startTime = [r \in Req |-> 0]
  /\ busyAtHit = [r \in Req |-> FALSE]
  /\ responses = [r \in Req |-> <<>>]
  /\ performanceMetrics = [totalTranscriptions |-> 0,
                           averageProcessingTime |-> <<0, 1>>,
                           totalProcessingTime |-> 0]
  /\ counted = {}
  /\ exited = FALSE
  /\ fs = [p \in Path |-> <<>>]
  /\ cache = WarmCache
  /\ running = 0
  /\ waitList = <<>>
  /\ now = 0
  /\ acquired = [r \in Req |-> 0]
  /\ released = [r \in Req |-> 0]
  /\ waited = [r \in Req |-> FALSE]
  /\ whisperCalls = [r \in Req |-> 0]
  /\ ffmpegCalls = [r \in Req |-> 0]
  /\ unlinks = [r \in Req |-> 0]
  /\ exitPath = [r \in Req |-> "none"]
  /\ before = [r \in Req |-> {}]
  /\ wroteCache = [r \in Req |-> FALSE]
  /\ cacheRead = [r \in Req |-> "none"]

WarmSpec == WarmInit /\ [][Next]_vars

(* the whisper subprocess of request r ends: 'close', or 'error' *)
RecognizerExit(r) ==
  \/ \E art \in {<<>>} \cup {<<raw>> : raw \in RawTexts}, err \in StderrTexts,
        code \in {0, 1}, dt \in {0, 1}, writeOk \in BOOLEAN :
       WhisperClose(r, art, err, code, dt, writeOk)
  \/ WhisperError(r)

(* Every running recognizer invocation eventually exits.  Nothing is       *)
(* assumed of ffmpeg, of new requests, or of a 'close' after an 'error'.   *)
FairSpec == Spec /\ \A r \in Req : WF_vars(RecognizerExit(r))

(* ---------------------------------------------------------- the responses *)
(* config.nodeEnv *)
NodeEnvs == {"development", "production"}

(* the body the catch of transcribeAudio answers with (status 500), for an *)
(* error with the given message                                            *)
TranscribeFailureResponse(message) ==
  [success |-> FALSE, error |-> "Failed to process audio file",
   message |-> message, code |-> "TRANSCRIPTION_FAILED"]

(* the body of the global error handler of the application *)
GlobalErrorResponse(env, message, stack) ==
  IF env = "development"
  THEN [success |-> FALSE, error |-> "Internal server error",
        code |-> "INTERNAL_ERROR", message |-> message, stack |-> stack]
  ELSE [success |-> FALSE, error |-> "Internal server error",
        code |-> "INTERNAL_ERROR"]

(* the kind of error a rejection of transcribe is, by the fixed part of    *)
(* its message                                                             *)
ErrorKind(msg) ==
  CASE msg[1] = "Audio processing error: " -> "FileNotFound"
    [] msg[1] = "Failed to start Whisper: " -> "RecognitionLaunchFailed"
    [] OTHER -> "RecognitionFailed"

(* ------------------------------------------------------------- the route *)
(* the Authorization header of a request: absent, of another scheme, or    *)
(* 'Bearer <token>'                                                        *)
Headers == {"none", "Basic", "Bearer"}

(* verifyFirebaseToken: the status it answers with, 0 when it calls next.  *)
(* tokenOk: admin.auth().verifyIdToken(token) resolved.                    *)
verifyFirebaseToken(header, tokenOk) ==
  IF header # "Bearer" THEN 401 ELSE IF ~tokenOk THEN 403 ELSE 0

(* the upload is stored before the token is looked at *)
RouteUploadFirst ==
  << "upload.single", "verifyFirebaseToken", "handleUploadError", "transcribeAudio" >>

(* router.post('/transcribe', ...): the handlers in the order given *)
Route ==
  << "verifyFirebaseToken", "upload.single", "handleUploadError", "transcribeAudio" >>

(* Express runs the handlers of a route in order, each one when the one    *)
(* before it called next; an error handler is passed over while there is   *)
(* no error.  status: what a handler short of the last answered with;      *)
(* stored: multer wrote the upload; called: transcribeAudio ran.           *)
RECURSIVE RunRoute(_, _, _)
RunRoute(chain, header, tokenOk) ==
  IF chain = <<>> THEN [status |-> 0, stored |-> FALSE, called |-> FALSE]
  ELSE LET rest == RunRoute(Tail(chain), header, tokenOk)
       IN CASE Head(chain) = "verifyFirebaseToken" ->
                 IF verifyFirebaseToken(header, tokenOk) = 0 THEN rest
                 ELSE [status |-> verifyFirebaseToken(header, tokenOk),
                       stored |-> FALSE, called |-> FALSE]
            [] Head(chain) = "upload.single" -> [rest EXCEPT !.stored = TRUE]
            [] Head(chain) = "transcribeAudio" ->
                 [status |-> 0, stored |-> FALSE, called |-> TRUE]
            [] OTHER -> rest

(* POST /transcribe for request r.  present: the stored upload is still    *)
(* there when transcribe starts.                                           *)
PostTranscribe(r, header, tokenOk, b, readOk, present) ==
  LET ran == RunRoute(Route, header, tokenOk)
  IN IF ran.called
     THEN IF present THEN TranscribeStart(r, b, readOk) ELSE TranscribeMissing(r)
     ELSE /\ pc[r] = "idle"
          /\ Arrived(r)
          /\ pc' = [pc EXCEPT ![r] =
                      IF ran.status = 401 THEN "refused401" ELSE "refused403"]
          /\ fs' = IF ran.stored THEN [fs EXCEPT ![InputPath(r)] = << b >>] ELSE fs
          /\ UNCHANGED << bytes, fileHash, finalPath, outcome, result, errMsg,
                          stderr, startTime, busyAtHit, ctl, cache, running, waitList, now, hist >>

HttpNext ==
  \/ \E r \in Req, header \in Headers, tokenOk \in BOOLEAN, b \in Bytes,
        readOk \in BOOLEAN, present \in BOOLEAN :
       PostTranscribe(r, header, tokenOk, b, readOk, present)
  \/ \E r \in Req, how \in {"ok", "ok_nofile", "fail", "launch"} : FfmpegExit(r, how)
  \/ \E r \in Req : RecognizerExit(r)
  \/ \E r \in Req : WhisperCloseAfterError(r)

(* the service behind its HTTP route *)
HttpSpec == Init /\ [][HttpNext]_vars

(* ------------------------------------------------------- the controller *)
(* a response as the properties read it: its status and the code field of  *)
(* its body ("" when the body has none)                                    *)
Response(status, code) == [status |-> status, code |-> code]

(* what becomes of a rejection of transcribeAudio's own promise: Express 4 *)
(* drops it, and the unhandledRejection handler of server.ts ends the      *)
(* process; Express 5 passes it to the application's error handler         *)
Frameworks == {"express4", "express5"}

(* the average is kept as the quotient <<dividend, divisor>> *)
MetricsZero ==
  [totalTranscriptions |-> 0, averageProcessingTime |-> <<0, 1>>,
   totalProcessingTime |-> 0]

(* the average is taken before the new time is added *)
MetricsAfterStaleAverage(m, t) ==
  [totalTranscriptions |-> m.totalTranscriptions + 1,
   averageProcessingTime |-> << m.totalProcessingTime, m.totalTranscriptions + 1 >>,
   totalProcessingTime |-> m.totalProcessingTime + t]

(* the metrics update of transcribeAudio for a result with processingTime t *)
MetricsAfter(m, t) ==
  [totalTranscriptions |-> m.totalTranscriptions + 1,
   averageProcessingTime |-> << m.totalProcessingTime + t, m.totalTranscriptions + 1 >>,
   totalProcessingTime |-> m.totalProcessingTime + t]

(* transcribeAudio for a request without req.file *)
TranscribeAudioNoFile(r) ==
  /\ pc[r] = "idle"
  /\ Arrived(r)
  /\ pc' = [pc EXCEPT ![r] = "nofile"]
  /\ responses' = [responses EXCEPT ![r] = Append(@, Response(400, "NO_FILE"))]
  /\ UNCHANGED << bytes, fileHash, finalPath, outcome, result, errMsg, stderr,
                  startTime, busyAtHit, fs, cache, running, waitList, now, hist,
                  performanceMetrics, counted, exited >>

(* the catch answers without cleaning up *)
CatchCleanupNone(f, path) == f

(* the catch of transcribeAudio, when its unlinkSync does not throw:       *)
(* if (req.file && fs.existsSync(req.file.path)) fs.unlinkSync(...)        *)
CatchCleanup(f, path) == [f EXCEPT ![path] = <<>>]

(* transcribeAudio from the settlement of `await transcribe(...)` on.      *)
(* unlinkOk: unlinkSync of line 44 worked; retryOk: the one in the catch   *)
(* worked.  An unlinkSync that throws inside the catch rejects the promise *)
(* of transcribeAudio.                                                     *)
AfterTranscribe(r, unlinkOk, retryOk, framework) ==
  /\ ~exited
  /\ Settled(r)
  /\ responses[r] = <<>>
  /\ LET path == InputPath(r)
         there == Exists(fs, path)
         removed == [fs EXCEPT ![path] = <<>>]
         success == outcome[r] = "resolved" /\ there /\ unlinkOk
         catchThrows == ~success /\ there /\ ~retryOk
     IN IF success
        THEN /\ fs' = removed
             /\ performanceMetrics' =
                  MetricsAfter(performanceMetrics, result[r][1].processingTime)
             /\ counted' = counted \cup {r}
             /\ responses' = [responses EXCEPT ![r] = Append(@, Response(200, ""))]
             /\ UNCHANGED exited
        ELSE IF ~catchThrows
        THEN /\ fs' = CatchCleanup(fs, path)
             /\ responses' = [responses EXCEPT ![r] =
                                Append(@, Response(500, TranscribeFailureResponse("").code))]
             /\ UNCHANGED << performanceMetrics, counted, exited >>
        ELSE /\ IF framework = "express4"
                THEN exited' = TRUE /\ UNCHANGED responses
                ELSE /\ responses' = [responses EXCEPT ![r] =
                            Append(@, Response(500, GlobalErrorResponse("production", "", "").code))]
                     /\ UNCHANGED exited
             /\ UNCHANGED << fs, performanceMetrics, counted >>
  /\ UNCHANGED << pc, bytes, fileHash, finalPath, outcome, result, errMsg, stderr,
                  startTime, busyAtHit, cache, running, waitList, now, hist >>

(* resetPerformanceMetrics *)
ResetPerformanceMetrics ==
  /\ performanceMetrics' = MetricsZero
  /\ counted' = {}
  /\ UNCHANGED << pc, bytes, fileHash, finalPath, outcome, result, errMsg, stderr,
                  startTime, busyAtHit, fs, cache, running, waitList, now, hist,
                  responses, exited >>

(* a settled transcribe whose caller has not gone on yet: the rest of      *)
(* transcribeAudio is a microtask, which runs before the next event        *)
Pending == \E r \in Req : Settled(r) /\ responses[r] = <<>>

(* how ffmpeg ends in the runs of the controller: with its output, or     *)
(* without, so that whisper reads the upload itself                        *)
CtlHows == {"ok", "fail"}

(* the process is alive and no continuation is waiting to run *)
Quiet == ~exited /\ ~Pending

CtlNext ==
  \/ \E r \in Req, unlinkOk \in BOOLEAN, retryOk \in BOOLEAN, framework \in Frameworks :
       AfterTranscribe(r, unlinkOk, retryOk, framework)
  \/ \E r \in Req : Quiet /\ TranscribeAudioNoFile(r)
  \/ \E r \in Req : Quiet /\ TranscribeMissing(r)
  \/ \E r \in Req, b \in Bytes : Quiet /\ TranscribeStart(r, b, TRUE)
  \/ \E r \in Req, how \in CtlHows : Quiet /\ FfmpegExit(r, how)
  \/ \E r \in Req, art \in {<<>>} \cup {<<raw>> : raw \in RawTexts},
        err \in StderrTexts, code \in {0, 1}, dt \in {0, 1} :
       Quiet /\ WhisperClose(r, art, err, code, dt, TRUE)
  \/ \E r \in Req : Quiet /\ WhisperError(r)
  \/ \E r \in Req : Quiet /\ WhisperCloseAfterError(r)
  \/ Quiet /\ ResetPerformanceMetrics

(* the service behind its controller *)
CtlSpec == Init /\ [][CtlNext]_vars

(* ------------------------------------------------------------ exceptions *)
(* whisperProcess.on('close') with a file operation that throws.  The      *)
(* handler is called by the event emitter, outside the try of transcribe:  *)
(* the exception is an uncaughtException, for which server.ts calls        *)
(* process.exit(1).  at = "txt": readFileSync or unlinkSync of txtFile     *)
(* throws; at = "final": unlinkSync(finalAudioPath) throws.                *)
WhisperCloseThrows(r, art, err, code, at) ==
  /\ pc[r] = "running"
  /\ LET inp == InputPath(r)
         fin == finalPath[r][1]
         txt == TxtFile(fin)
         fs1 == RecognizerWrites(fs, fin, art)
     IN /\ at = "txt" => (code = 0 /\ Exists(fs1, txt))
        /\ at = "final" => UnlinksProcessed(fs1, inp, fin, code)
        /\ fs' = IF at = "final" /\ code = 0 THEN [fs1 EXCEPT ![txt] = <<>>] ELSE fs1
  /\ stderr' = [stderr EXCEPT ![r] = err]
  /\ exited' = TRUE
  /\ UNCHANGED << pc, bytes, fileHash, finalPath, outcome, result, errMsg, startTime,
                  busyAtHit, cache, running, waitList, now, hist, responses,
                  performanceMetrics, counted >>

(* the whisper subprocess of request r ends, and its handler runs *)
RecognizerEnds(r) ==
  \/ RecognizerExit(r)
  \/ \E art \in {<<>>} \cup {<<raw>> : raw \in RawTexts}, err \in StderrTexts,
        code \in {0, 1}, at \in {"txt", "final"} :
       WhisperCloseThrows(r, art, err, code, at)

(* the ffmpeg subprocess of request r ends *)
PreprocessorEnds(r) ==
  \E how \in {"ok", "ok_nofile", "fail", "launch"} : FfmpegExit(r, how)

ExitNext ==
  \/ \E r \in Req : ~exited /\ TranscribeMissing(r)
  \/ \E r \in Req, b \in Bytes, readOk \in BOOLEAN :
       ~exited /\ TranscribeStart(r, b, readOk)
  \/ \E r \in Req : ~exited /\ PreprocessorEnds(r)
  \/ \E r \in Req : ~exited /\ RecognizerExit(r)
  \/ \E r \in Req, art \in {<<>>} \cup {<<raw>> : raw \in RawTexts},
        err \in StderrTexts, code \in {0, 1}, at \in {"txt", "final"} :
       ~exited /\ WhisperCloseThrows(r, art, err, code, at)
  \/ \E r \in Req : ~exited /\ WhisperCloseAfterError(r)

(* transcribe in its process: every subprocess that was started ends, and  *)
(* its handler runs while the process lives                                *)
ExitSpec ==
  /\ Init
  /\ [][ExitNext]_vars
  /\ \A r \in Req : WF_vars(~exited /\ PreprocessorEnds(r))
  /\ \A r \in Req : WF_vars(~exited /\ RecognizerEnds(r))

(* ================================================================ claims *)
RunningProcs == {r \in Req : pc[r] = "running"}

Waiting == {waitList[i] : i \in DOMAIN waitList}

Pos(wl, r) == CHOOSE i \in DOMAIN wl : wl[i] = r

(* a is ahead of b in wl *)
Ahead(wl, a, b) ==
  /\ \E i \in DOMAIN wl : wl[i] = a
  /\ \E j \in DOMAIN wl : wl[j] = b
  /\ Pos(wl, a) < Pos(wl, b)

(* some request releases its slot in this step *)
Releases(r) == released'[r] = released[r] + 1

(* C1: in every reachable state the number of whisper subprocesses that    *)
(* were launched and have not exited, and the running count, are at most   *)
(* maxConcurrent.                                                          *)
C1_AdmissionBound ==
  /\ Cardinality(RunningProcs) <= maxConcurrent
  /\ running <= maxConcurrent
  /\ running >= 0

(* load above capacity: every slot in use and two requests waiting *)
C1_Witness == running = maxConcurrent /\ Len(waitList) = 2

(* C2: a request that acquired a slot releases it exactly once on every    *)
(* exit path of recognition (exit 0 with output, exit 0 without output,    *)
(* non-zero exit, failure to launch, and a 'close' after that failure),    *)
(* and no request releases a slot it did not acquire.                      *)
C2_SlotReleasedOnce ==
  \A r \in Req :
    /\ released[r] <= acquired[r]
    /\ acquired[r] <= 1
    /\ (pc[r] = "running" => acquired[r] = 1 /\ released[r] = 0)
    /\ (pc[r] \in {"idle", "preproc", "queued"} => acquired[r] = 0)
    /\ (exitPath[r] # "none" => acquired[r] = 1 /\ released[r] = 1)
    /\ (pc[r] \in {"done", "errored"} => released[r] = acquired[r])

(* three requests left recognition by three failing paths, one of them by  *)
(* 'error' followed by 'close'                                             *)
C2_Witness ==
  \E a, b, c \in Req :
    /\ exitPath[a] = "noart" /\ exitPath[b] = "nonzero"
    /\ exitPath[c] = "launch" /\ pc[c] = "done"
    /\ released[a] = 1 /\ released[b] = 1 /\ released[c] = 1

(* C3: once a request has settled, the intermediate file its preprocessing *)
(* produced (finalAudioPath differs from the input path) no longer exists  *)
(* and was unlinked exactly once.                                          *)
C3_IntermediateDeleted ==
  \A r \in Req :
    (Settled(r) /\ finalPath[r] # <<>> /\ finalPath[r][1] # InputPath(r))
      => (~Exists(fs, finalPath[r][1]) /\ unlinks[r] = 1)

(* C4: slots are granted to waiters in the order they began waiting: a     *)
(* step admits a waiter only if everyone ahead of it in waitList is        *)
(* admitted by then, waiters keep their relative order, and a newcomer     *)
(* goes behind everyone who waits.                                         *)
C4_Fifo ==
  [][ \A a, b \in Req :
        /\ (Ahead(waitList, a, b) /\ pc'[b] # "queued") => pc'[a] = "running"
        /\ (Ahead(waitList, a, b) /\ b \in Waiting' /\ a \in Waiting')
              => Ahead(waitList', a, b)
        /\ (a \in Waiting /\ b \notin Waiting /\ b \in Waiting' /\ a \in Waiting')
              => Ahead(waitList', a, b)
    ]_vars

(* the earlier of two waiters runs, having waited, and the later one still *)
(* waits                                                                   *)
C4_Witness ==
  \E a, b \in Req :
    /\ a # b /\ waited[a] /\ pc[a] = "running"
    /\ waitList = <<b>>
    /\ \E c \in Req : released[c] = 1

(* C5: once every submitted request has settled, the running count is zero *)
(* and the wait list is empty.                                             *)
C5_SlotConservation ==
  (\A r \in Req : pc[r] # "idle" => Settled(r))
    => (running = 0 /\ waitList = <<>>)

(* all requests were submitted and have settled, after recognitions that   *)
(* ended without output, with a non-zero exit and with a failed launch     *)
C5_Witness ==
  /\ \A r \in Req : Settled(r)
  /\ \E a, b, c \in Req :
       exitPath[a] = "noart" /\ exitPath[b] = "nonzero" /\ exitPath[c] = "launch"

(* C6: a release decrements running and, when somebody waits, hands the    *)
(* slot to the head waiter in the same step (the head leaves the list and  *)
(* runs, running is as before); so a non-empty wait list implies           *)
(* running = maxConcurrent.                                                *)
C6_NoIdleSlot == waitList # <<>> => running = maxConcurrent

C6_ReleaseStep ==
  \A r \in Req :
    Releases(r) =>
      IF waitList # <<>>
      THEN /\ waitList' = Tail(waitList)
           /\ pc[Head(waitList)] = "queued" /\ pc'[Head(waitList)] = "running"
           /\ acquired'[Head(waitList)] = acquired[Head(waitList)] + 1
           /\ running' = running
      ELSE /\ running' = running - 1
           /\ waitList' = waitList

C6_ReleaseGrantsHead == []C6_NoIdleSlot /\ [][C6_ReleaseStep]_vars

(* a release has handed its slot to a waiter while another one waits *)
C6_Witness ==
  \E r, q \in Req :
    /\ released[r] = 1 /\ waited[q] /\ pc[q] = "running"
    /\ waitList # <<>> /\ running = maxConcurrent

(* C7: acquireSlot grants at once and increments running when              *)
(* running < maxConcurrent; otherwise the caller is appended to the tail   *)
(* of waitList, running is unchanged, and the request stays queued until a *)
(* release grants it the slot.                                             *)
C7_AcquireStep ==
  \A r \in Req :
    /\ (pc[r] = "preproc" /\ pc'[r] # "preproc") =>
         IF running < maxConcurrent
         THEN /\ pc'[r] = "running" /\ running' = running + 1
              /\ waitList' = waitList
         ELSE /\ pc'[r] = "queued" /\ running' = running
              /\ waitList' = Append(waitList, r)
    /\ (pc[r] = "queued" /\ pc'[r] # "queued") =>
         /\ pc'[r] = "running"
         /\ \E q \in Req : q # r /\ pc[q] = "running" /\ Releases(q)

C8_NoDoubleCountNoLoss ==
  /\ \A i, j \in DOMAIN waitList : i # j => waitList[i] # waitList[j]
  /\ Waiting = {r \in Req : pc[r] = "queued"}
  /\ running = Cardinality(RunningProcs)
  /\ \A r \in Req : acquired[r] - released[r] = IF pc[r] = "running" THEN 1 ELSE 0
  /\ \A r \in Req : (pc[r] \in {"queued", "running"}) => ~Settled(r)
  /\ \A r \in Req : (pc[r] \in {"done", "errored"}) => Settled(r)

(* one request runs, one waits, and one that waited has settled *)
C8_Witness ==
  /\ Cardinality(RunningProcs) = maxConcurrent
  /\ Len(waitList) >= 1
  /\ \E r \in Req : exitPath[r] # "none"
  /\ \E q \in Req : waited[q] /\ pc[q] = "running"

(* C9: if every running recognizer invocation eventually exits, every      *)
(* waiting request is eventually admitted and every submitted request      *)
(* eventually settles; a waiting request leaves the wait list only by      *)
(* being granted a slot.                                                   *)
C9_LeavesByGrant ==
  \A r \in Req :
    /\ (r \in Waiting /\ r \notin Waiting') =>
         (pc'[r] = "running" /\ acquired'[r] = acquired[r] + 1)
    /\ (pc[r] = "queued" /\ pc'[r] # "queued") => (pc'[r] = "running" /\ ~Settled(r)')

C9_WaitersAdmitted == \A r \in Req : (pc[r] = "queued") ~> (pc[r] = "running")

C9_AllSettle == \A r \in Req : (pc[r] # "idle") ~> Settled(r)

C10_TwiceInSequence(r1, r2) ==
  /\ r1 # r2
  /\ bytes[r1] # <<>> /\ bytes[r2] = bytes[r1]
  /\ r1 \in before[r2]
  /\ Settled(r2)
  /\ \A q \in Req \ {r1, r2} : bytes[q] # bytes[r1]

C10_SecondIsFirst(r1, r2) ==
  /\ outcome[r2] = "resolved"
  /\ result[r2] = result[r1]
  /\ whisperCalls[r2] = 0 /\ ffmpegCalls[r2] = 0
  /\ whisperCalls[r1] + whisperCalls[r2] = 1

(* the claim as stated *)
C10_Original ==
  \A r1, r2 \in Req : C10_TwiceInSequence(r1, r2) => C10_SecondIsFirst(r1, r2)

(* amended: provided the first call's cache file was written and the       *)
(* second call's read of it did not throw                                  *)
C10_CacheIdempotence ==
  \A r1, r2 \in Req :
    (C10_TwiceInSequence(r1, r2) /\ wroteCache[r1] /\ cacheRead[r2] # "failed")
      => C10_SecondIsFirst(r1, r2)

(* a second call for the same bytes was served from the entry the first    *)
(* call wrote, after a recognition that trimmed its output                 *)
C10_Witness ==
  \E r1, r2 \in Req :
    /\ C10_TwiceInSequence(r1, r2) /\ wroteCache[r1] /\ cacheRead[r2] = "hit"
    /\ exitPath[r1] = "ok" /\ result[r2][1].text = <<"h", "i">>
    /\ result[r2][1].processingTime = 1
(* the lifecycle state of request r *)
Lifecycle(r) ==
  CASE pc[r] = "idle" -> "None"
    [] pc[r] = "preproc" -> "Preprocessing"
    [] pc[r] = "queued" -> "Queued"
    [] pc[r] = "running" -> "Running"
    [] OTHER -> IF outcome[r] = "resolved" THEN "Done" ELSE "Failed"

(* The lifecycle states request r passes in this step, the ones a handler  *)
(* passes without suspending included: the cache lookup of a new request,  *)
(* the slot granted at once, the cache store before the result is          *)
(* returned.                                                               *)
Trail(r) ==
  LET from == Lifecycle(r)
      to == Lifecycle(r)'
  IN IF from = to THEN << from >>
     ELSE IF from = "None"
       THEN IF cacheRead'[r] = "none" THEN << "Received", to >>
            ELSE << "Received",
                    IF cacheRead'[r] = "hit" THEN "CacheHit" ELSE "CacheMiss", to >>
     ELSE IF from = "Preprocessing" /\ to = "Running"
       THEN << from, "Queued", to >>
     ELSE IF from = "Running" /\ exitPath'[r] = "ok"
       THEN << from, "Cached", to >>
     ELSE << from, to >>

TrailWithin(r, edges) ==
  \A i \in 1..(Len(Trail(r)) - 1) : << Trail(r)[i], Trail(r)[i + 1] >> \in edges

C11_StatedEdges ==
  { << "Received", "CacheHit" >>, << "CacheHit", "Done" >>,
    << "Received", "CacheMiss" >>, << "CacheMiss", "Preprocessing" >>,
    << "Preprocessing", "Queued" >>, << "Queued", "Running" >>,
    << "Running", "Cached" >>, << "Cached", "Done" >>,
    << "Preprocessing", "Failed" >>, << "Running", "Failed" >> }

(* the claim as stated: Failed is never entered from Received *)
C11_Original == [][ \A r \in Req : TrailWithin(r, C11_StatedEdges) ]_vars

(* C11: each request follows only the transitions Received -> CacheHit ->  *)
(* Done or Received -> CacheMiss -> Preprocessing -> Queued -> Running ->  *)
(* Cached -> Done; Done and Failed are terminal; Failed is entered only    *)
(* from Received (the input file is missing), Preprocessing or Running,    *)
(* never from Queued or Cached.                                            *)
C11_Lifecycle ==
  [][ \A r \in Req :
        TrailWithin(r, C11_StatedEdges \cup { << "Received", "Failed" >> }) ]_vars

(* one request was served by recognition, one from the cache, and one      *)
(* failed on arrival for want of its input file                            *)
C11_Witness ==
  \E a, b, c \in Req :
    /\ exitPath[a] = "ok" /\ Lifecycle(a) = "Done"
    /\ cacheRead[b] = "hit" /\ Lifecycle(b) = "Done"
    /\ cacheRead[c] = "none" /\ Lifecycle(c) = "Failed"
(* the request was rejected by one of the three rejections of the          *)
(* recognizer's handlers                                                   *)
RecognitionFailed(r) ==
  /\ outcome[r] = "rejected"
  /\ errMsg[r][1] \in { "Whisper process failed: ", "Whisper output file not found",
                        "Failed to start Whisper: " }

(* the rejection's message holds the text captured from standard error *)
CarriesStderr(r) == stderr[r] = <<>> \/ errMsg[r][2] = stderr[r]

C12_FailsExactlyWhen ==
  \A r \in Req : RecognitionFailed(r) <=> exitPath[r] \in {"nonzero", "noart", "launch"}

C12_ReturnsExactlyWhen ==
  \A r \in Req :
    exitPath[r] # "none" =>
      /\ (outcome[r] = "resolved" <=> exitPath[r] = "ok")
      /\ (result[r] # <<>> <=> exitPath[r] = "ok")

C12_FailureCarriesStderr == \A r \in Req : RecognitionFailed(r) => CarriesStderr(r)

(* C12: transcribe fails with RecognitionFailed exactly when the           *)
(* recognizer exits non-zero, exits 0 without its output file, or cannot   *)
(* be launched; it returns a result exactly when the recognizer exits 0    *)
(* and the output file exists; a failed request has no result and its      *)
(* failure carries the captured standard-error text.                       *)
C12_RecognitionFailed ==
  /\ C12_FailsExactlyWhen
  /\ C12_ReturnsExactlyWhen
  /\ C12_FailureCarriesStderr
(* the request was rejected for want of its input file *)
FileNotFound(r) ==
  /\ outcome[r] = "rejected"
  /\ errMsg[r] = << "Audio processing error: ", "Audio file not found" >>

C13_NothingDone ==
  \A r \in Req :
    FileNotFound(r) =>
      /\ pc[r] = "done" /\ result[r] = <<>>
      /\ cacheRead[r] = "none" /\ fileHash[r] = <<>>
      /\ ffmpegCalls[r] = 0 /\ finalPath[r] = <<>>
      /\ acquired[r] = 0 /\ released[r] = 0 /\ r \notin Waiting
      /\ whisperCalls[r] = 0 /\ exitPath[r] = "none"
      /\ ~wroteCache[r]

C13_StartStep ==
  \A r \in Req :
    (pc[r] = "idle" /\ pc'[r] # "idle" /\ ~Exists(fs', InputPath(r))) =>
      /\ FileNotFound(r)'
      /\ cache' = cache /\ fs' = fs
      /\ running' = running /\ waitList' = waitList
      /\ acquired' = acquired /\ whisperCalls' = whisperCalls
      /\ ffmpegCalls' = ffmpegCalls /\ cacheRead' = cacheRead

(* C13: a request whose input file does not exist when transcribe starts   *)
(* fails with FileNotFound in that step, and it looks nothing up in the    *)
(* cache, starts no preprocessing, acquires no slot, invokes no recognizer *)
(* and writes nothing to the cache, then or later.                         *)
C13_FileNotFound == []C13_NothingDone /\ [][C13_StartStep]_vars

(* a request failed for want of its file while one request was running and *)
(* one was waiting for the slot                                            *)
C13_Witness ==
  \E r, q, w \in Req :
    FileNotFound(r) /\ pc[q] = "running" /\ pc[w] = "queued" /\ running = maxConcurrent
C14_NothingAfterHit ==
  \A r \in Req :
    cacheRead[r] = "hit" =>
      /\ pc[r] = "done" /\ outcome[r] = "resolved" /\ result[r] # <<>>
      /\ ffmpegCalls[r] = 0 /\ finalPath[r] = <<>>
      /\ acquired[r] = 0 /\ released[r] = 0 /\ r \notin Waiting
      /\ whisperCalls[r] = 0 /\ exitPath[r] = "none"
      /\ ~wroteCache[r] /\ unlinks[r] = 0

C14_HitStep ==
  \A r \in Req :
    (cacheRead[r] = "none" /\ cacheRead'[r] = "hit") =>
      /\ pc[r] = "idle" /\ pc'[r] = "done"
      /\ result'[r] = << Parse(cache[fileHash'[r][1]][1]) >>
      /\ cache' = cache
      /\ \A p \in Path : Exists(fs, p) => Exists(fs', p)
      /\ running' = running /\ waitList' = waitList
      /\ ffmpegCalls' = ffmpegCalls /\ whisperCalls' = whisperCalls
      /\ unlinks' = unlinks /\ wroteCache' = wroteCache

(* C14: on a cache hit transcribe returns the cached result in the step of *)
(* the lookup and does none of the later steps: no preprocessing, no slot  *)
(* acquisition, no recognizer invocation, no cache write and no file       *)
(* deletion.                                                               *)
C14_CacheHitSkipsAll == []C14_NothingAfterHit /\ [][C14_HitStep]_vars

(* a request was served from the entry an earlier request wrote, while     *)
(* another one held the slot                                               *)
C14_Witness ==
  \E r, q \in Req :
    /\ cacheRead[r] = "hit" /\ outcome[r] = "resolved"
    /\ pc[q] = "running" /\ running = maxConcurrent
    /\ \E a \in Req : wroteCache[a] /\ bytes[a] = bytes[r]
(* the results a recognition can produce *)
ResultSpace ==
  [text : {Trim(raw) : raw \in RawTexts} \cup { <<>> }, model : {configModel},
   language : Languages, processingTime : 0..MaxClock]

(* get after a put into cache c, with the given outcomes of the write and  *)
(* of the read                                                             *)
C15_PutThenGet(c, writeOk, readOk) ==
  \A f \in Bytes, res \in ResultSpace :
    LET c2 == saveCachedTranscription(c, f, res, writeOk)
        got == getCachedTranscription(c2, f, readOk)
    IN /\ got = << res >>
       /\ got[1].text = res.text /\ got[1].model = res.model
       /\ got[1].language = res.language
       /\ got[1].processingTime = res.processingTime
       /\ \A g \in Bytes \ {f}, ok \in BOOLEAN :
            getCachedTranscription(c2, g, ok) = getCachedTranscription(c, g, ok)

C15_EmptyIsAbsent ==
  \A h \in Bytes, ok \in BOOLEAN :
    cache[h] = <<>> => getCachedTranscription(cache, h, ok) = <<>>

(* a put whose write failed changes nothing *)
C15_FailedPut ==
  \A f \in Bytes, res \in ResultSpace :
    saveCachedTranscription(cache, f, res, FALSE) = cache

(* the entry a request wrote in this step reads back as its result *)
C15_PutStep ==
  \A r \in Req :
    (~wroteCache[r] /\ wroteCache'[r]) =>
      /\ getCachedTranscription(cache', fileHash[r][1], TRUE) = result'[r]
      /\ \A g \in Bytes \ {fileHash[r][1]} : cache'[g] = cache[g]

C16_FailedReadStep ==
  \A r \in Req :
    (cacheRead[r] = "none" /\ cacheRead'[r] = "failed") =>
      /\ getCachedTranscription(cache, fileHash'[r][1], FALSE) = <<>>
      /\ pc'[r] = "preproc" /\ outcome'[r] = "none" /\ result'[r] = <<>>
      /\ ffmpegCalls'[r] = 1
      /\ cache' = cache

C16_GoesOn ==
  \A r \in Req :
    cacheRead[r] = "failed" =>
      /\ ffmpegCalls[r] = 1
      /\ pc[r] \in {"preproc", "queued"} \/ whisperCalls[r] = 1
      /\ Settled(r) => exitPath[r] # "none"
      /\ outcome[r] = "rejected" => RecognitionFailed(r)

(* C16: a cache read that fails is a cache miss: get returns absent, the   *)
(* request goes on to preprocessing and recognition, and if it fails it    *)
(* fails in recognition, never for the read error.                         *)
C16_ReadErrorIsMiss == []C16_GoesOn /\ [][C16_FailedReadStep]_vars

(* a request whose read of an existing entry failed was recognized and     *)
(* wrote the entry again                                                   *)
C16_Witness ==
  \E r \in Req :
    /\ cacheRead[r] = "failed" /\ outcome[r] = "resolved" /\ exitPath[r] = "ok"
    /\ wroteCache[r] /\ \E q \in before[r] : wroteCache[q] /\ bytes[q] = bytes[r]
(* recognition of request r succeeds in this step and its cache write      *)
(* fails                                                                   *)
C17_WriteFails(r) ==
  exitPath[r] = "none" /\ exitPath'[r] = "ok" /\ ~wroteCache'[r]

C17_StillReturns(r) ==
  /\ outcome'[r] = "resolved" /\ pc'[r] = "done"
  /\ result'[r] # <<>> /\ result'[r][1] \in ResultSpace

C18_PrepareReturns(f, r) ==
  \A how \in {"ok", "ok_nofile", "fail", "launch"} :
    LET inp == InputPath(r)
        out == PreprocessPath(inp)
        f1 == FfmpegWrites(f, inp, how)
        got == preprocessAudio(f1, inp, how)
    IN /\ how \in {"fail", "launch"} => got = inp
       /\ (how = "ok_nofile" /\ ~Exists(f1, out)) => got = inp
       /\ how = "ok" => (got = out /\ Exists(f1, out))
       /\ got = out => (how \in {"ok", "ok_nofile"} /\ Exists(f1, out))
       /\ got \in {inp, out}

(* with and without an output file left by an earlier run *)
C18_Prepare ==
  \A r \in Req :
    Exists(fs, InputPath(r)) =>
      /\ C18_PrepareReturns(fs, r)
      /\ C18_PrepareReturns([fs EXCEPT ![PreprocessPath(InputPath(r))] = << 1 >>], r)

(* the step in which the preprocessing of request r ends *)
C18_ProceedStep ==
  \A r \in Req :
    (pc[r] = "preproc" /\ pc'[r] # "preproc") =>
      LET inp == InputPath(r)
          out == PreprocessPath(inp)
      IN /\ pc'[r] \in {"queued", "running"} /\ outcome'[r] = "none"
         /\ finalPath'[r] = << IF Exists(fs', out) THEN out ELSE inp >>
         /\ Exists(fs', finalPath'[r][1])
         /\ Exists(fs', inp) /\ fs'[inp] = fs[inp]

(* C18: preprocessing never fails a request: when the converter exits      *)
(* non-zero, exits 0 without its output file, or cannot be launched,       *)
(* prepare returns the input path and the request goes on to recognition   *)
(* of the original file; it returns the derived path only when the         *)
(* converter exited 0 and the output file exists.                          *)
C18_PreprocessingBestEffort == []C18_Prepare /\ [][C18_ProceedStep]_vars

(* one request was recognized from its original file after a preprocessing *)
(* that produced nothing, another one runs on its preprocessed file        *)
C18_Witness ==
  \E r, q \in Req :
    /\ finalPath[r] = << InputPath(r) >> /\ exitPath[r] = "ok"
    /\ outcome[r] = "resolved"
    /\ finalPath[q] = << PreprocessPath(InputPath(q)) >> /\ pc[q] = "running"
C19_AtMostOneEntry == \A h \in Bytes : Len(cache[h]) <= 1

(* request r overwrites in this step the entry its fingerprint had *)
C19_Overwrites(r) ==
  ~wroteCache[r] /\ wroteCache'[r] /\ cache[fileHash[r][1]] # <<>>

C19_SameContentStep ==
  \A r \in Req :
    C19_Overwrites(r) => cache'[fileHash[r][1]] = cache[fileHash[r][1]]

(* C19: a fingerprint maps to at most one cache entry at all times, and    *)
(* any two writes for the same fingerprint, those of concurrent requests   *)
(* for byte-identical files included, store the same content, so that the  *)
(* entry does not depend on which write is last.                           *)
C19_IdempotentWrites == []C19_AtMostOneEntry /\ [][C19_SameContentStep]_vars
(* the fingerprint of a request is the digest of its file's bytes, so      *)
(* requests with the same bytes look up the same entry whatever language   *)
(* each asked for                                                          *)
C20_KeyFromBytes ==
  \A r1, r2 \in Req :
    /\ fileHash[r1] # <<>> => fileHash[r1] = bytes[r1]
    /\ (bytes[r1] # <<>> /\ bytes[r1] = bytes[r2]) => fileHash[r1] = fileHash[r2]

(* a request served from the cache has the result of an earlier request    *)
(* for the same bytes, in the language of that request                     *)
C20_HitIsStored ==
  \A r2 \in Req :
    cacheRead[r2] = "hit" =>
      \E r1 \in before[r2] :
        /\ wroteCache[r1] /\ bytes[r1] = bytes[r2]
        /\ result[r2] = result[r1]
        /\ result[r2][1].language = recognizeLanguage(r1)

(* the lookup of a new request reads the entry of its bytes, if there is   *)
(* one and the read works, and the result is that entry                    *)
C20_LookupStep ==
  \A r \in Req :
    (pc[r] = "idle" /\ pc'[r] # "idle" /\ bytes'[r] # <<>>) =>
      LET h == bytes'[r][1]
      IN /\ cacheRead'[r] = "miss" <=> cache[h] = <<>>
         /\ cacheRead'[r] = "hit" =>
              (outcome'[r] = "resolved" /\ result'[r] = << Parse(cache[h][1]) >>)

(* C20: the cache key depends only on the bytes of the input file: a       *)
(* request for byte-identical content looks up, and when its read works    *)
(* is served, the entry an earlier request stored, whatever language       *)
(* either of them asked for, so that its result does not depend on its own *)
(* language parameter.                                                     *)
C20_KeyIgnoresLanguage ==
  /\ [](C20_KeyFromBytes /\ C20_HitIsStored)
  /\ [][C20_LookupStep]_vars

(* a request that asked for Spanish was served the English result stored   *)
(* for the same bytes, and the next request for these bytes, which asked   *)
(* for English, was served the same result                                 *)
C20_Witness ==
  \E r1, r2, r3 \in Req :
    /\ wroteCache[r1] /\ recognizeLanguage(r1) = "en"
    /\ cacheRead[r2] = "hit" /\ requestedLanguage(r2) = "es"
    /\ result[r2] = result[r1] /\ result[r2][1].language = "en"
    /\ r3 # r1 /\ cacheRead[r3] = "hit" /\ requestedLanguage(r3) = "en"
    /\ result[r3] = result[r2]
(* C21: on a cache miss the recognizer is invoked with the language        *)
(* requested for that job (the default when the request gave none), and    *)
(* the returned result's language field is the language the recognizer     *)
(* was invoked with.                                                       *)
C21_RequestedLanguageUsed ==
  \A r \in Req :
    /\ whisperCalls[r] > 0 => recognizeLanguage(r) = requestedLanguage(r)
    /\ exitPath[r] = "ok" => result[r][1].language = recognizeLanguage(r)

C21_ResultHasInvokedLanguage ==
  \A r \in Req : exitPath[r] = "ok" => result[r][1].language = recognizeLanguage(r)
(* t is raw without its leading and trailing whitespace *)
IsTrimOf(t, raw) ==
  /\ t = <<>> \/ (~IsSpace(t[1]) /\ ~IsSpace(t[Len(t)]))
  /\ \E i \in 0..Len(raw) :
       /\ i + Len(t) <= Len(raw)
       /\ \A k \in 1..i : IsSpace(raw[k])
       /\ \A k \in 1..Len(t) : raw[i + k] = t[k]
       /\ \A k \in (i + Len(t) + 1)..Len(raw) : IsSpace(raw[k])

(* C22: after a recognizer invocation that exits 0 with its output file    *)
(* present, the result text is the file's content without the surrounding  *)
(* whitespace, and the file is gone from the output directory when the     *)
(* request settles.                                                        *)
C22_TextTrimmedArtifactGone ==
  \A r \in Req :
    exitPath[r] = "ok" =>
      /\ Settled(r) /\ outcome[r] = "resolved"
      /\ \E raw \in RawTexts : IsTrimOf(result[r][1].text, raw)
      /\ ~Exists(fs, TxtFile(finalPath[r][1]))

(* a request recognized from its preprocessed file has the text of the     *)
(* output file, trimmed at both ends, and the output file is gone          *)
C22_Witness ==
  \E r \in Req :
    /\ exitPath[r] = "ok" /\ finalPath[r] = << PreprocessPath(InputPath(r)) >>
    /\ result[r][1].text = << "h", "i" >>
    /\ ~Exists(fs, TxtFile(finalPath[r][1]))
(* the response to the caller of a request whose transcribe was rejected *)
FailureResponse(r) == TranscribeFailureResponse(errMsg[r])

C23_NoStack ==
  /\ \A r \in Req :
       outcome[r] = "rejected" => "stack" \notin DOMAIN FailureResponse(r)
  /\ \A env \in NodeEnvs :
       "stack" \in DOMAIN GlobalErrorResponse(env, "message", "stack")
         => env = "development"

C23_CodePerKind ==
  \A r1, r2 \in Req :
    (outcome[r1] = "rejected" /\ outcome[r2] = "rejected"
       /\ ErrorKind(errMsg[r1]) # ErrorKind(errMsg[r2]))
      => FailureResponse(r1).code # FailureResponse(r2).code

(* C23: a failure response carries a code field whose value is distinct    *)
(* for each error kind (FileNotFound, RecognitionFailed,                   *)
(* RecognitionLaunchFailed), and holds no stack trace unless the service   *)
(* runs in development mode.                                               *)
C23_ErrorResponse == C23_CodePerKind /\ C23_NoStack
Refused(r) == pc[r] \in {"refused401", "refused403"}

C24_Route ==
  \A header \in Headers, tokenOk \in BOOLEAN :
    LET ran == RunRoute(Route, header, tokenOk)
    IN /\ header # "Bearer" => ran.status = 401
       /\ (header = "Bearer" /\ ~tokenOk) => ran.status = 403
       /\ ran.status \in {401, 403} => (~ran.stored /\ ~ran.called)
       /\ ran.called => (header = "Bearer" /\ tokenOk /\ ran.stored)

C24_NothingDone ==
  \A r \in Req :
    Refused(r) =>
      /\ ~Exists(fs, InputPath(r)) /\ bytes[r] = <<>>
      /\ outcome[r] = "none" /\ cacheRead[r] = "none"
      /\ ffmpegCalls[r] = 0 /\ whisperCalls[r] = 0 /\ acquired[r] = 0

C24_RefusedStep ==
  \A r \in Req :
    (~Refused(r) /\ Refused(r)') =>
      /\ pc[r] = "idle"
      /\ fs' = fs /\ cache' = cache
      /\ << bytes, fileHash, finalPath, outcome, result, errMsg, stderr,
            running, waitList, now, hist >>'
           = << bytes, fileHash, finalPath, outcome, result, errMsg, stderr,
                running, waitList, now, hist >>

(* C24: POST /transcribe stores the upload and runs the transcription      *)
(* handler only after the bearer token has been verified: a request        *)
(* without an Authorization header starting with 'Bearer ' is answered     *)
(* 401, one whose token fails verification 403, and in both cases no file  *)
(* is stored and transcribe is not called.                                 *)
C24_AuthFirst == [](C24_Route /\ C24_NothingDone) /\ [][C24_RefusedStep]_vars

(* one request was answered 401 and one 403 while the request of a         *)
(* verified caller is being recognized                                     *)
C24_Witness ==
  \E a, b, c \in Req :
    /\ pc[a] = "refused401" /\ pc[b] = "refused403"
    /\ pc[c] = "running" /\ Exists(fs, InputPath(c))
(* request r is recognized in this step *)
C25_Produces(r) == exitPath[r] = "none" /\ exitPath'[r] = "ok"

(* C25: the processingTime of a result is the duration of the job that     *)
(* produced it, the clock at its completion minus the clock at the start   *)
(* of that transcription, not a reading of the clock.                      *)
C25_ProcessingTimeIsDuration ==
  [][ \A r \in Req :
        C25_Produces(r) => result'[r][1].processingTime = now' - startTime[r] ]_vars
(* the paths an upload can have: multer keeps the extension of the         *)
(* original name                                                           *)
UploadPaths == {p \in Path : ~p.proc /\ p.ext \in {"mp3", "wav"}}

(* the file whisper is run on, with and without a preprocessed file *)
FinalPaths(p) == {p, PreprocessPath(p)}

C26_DistinctNames ==
  \A p1, p2 \in UploadPaths :
    p1 # p2 =>
      /\ PreprocessPath(p1) # PreprocessPath(p2)
      /\ \A f1 \in FinalPaths(p1), f2 \in FinalPaths(p2) : TxtFile(f1) # TxtFile(f2)

(* requests that are in flight together have their own intermediate file  *)
(* and their own output file                                               *)
C26_InFlightApart ==
  \A r1, r2 \in Req :
    (r1 # r2 /\ finalPath[r1] # <<>> /\ finalPath[r2] # <<>>) =>
      /\ PreprocessPath(InputPath(r1)) # PreprocessPath(InputPath(r2))
      /\ TxtFile(finalPath[r1][1]) # TxtFile(finalPath[r2][1])

(* C26: any two requests in flight together with distinct input paths use  *)
(* distinct preprocessed-file paths and distinct output-file names, so     *)
(* that none of them reads, overwrites or deletes a file of the other.     *)
C26_NoNameCollision == C26_DistinctNames /\ C26_InFlightApart
(* C27: the fingerprint is the digest of the raw input, taken before       *)
(* preprocessing starts, and the cache entry written after a successful    *)
(* recognition has that fingerprint as its key, never the digest of the    *)
(* preprocessed file.                                                      *)
C27_RawFingerprint ==
  \A r \in Req :
    fileHash[r] # <<>> =>
      /\ fileHash[r][1] = bytes[r][1]
      /\ fileHash[r][1] # Resample(bytes[r][1])

C27_HashedBeforeFfmpeg ==
  \A r \in Req :
    ffmpegCalls'[r] # ffmpegCalls[r] =>
      /\ fileHash'[r] = << getFileHash(fs', InputPath(r)) >>
      /\ ~Exists(fs', PreprocessPath(InputPath(r)))

C27_WrittenUnderFingerprint ==
  \A r \in Req :
    (wroteCache'[r] /\ ~wroteCache[r]) =>
      /\ fileHash'[r] = fileHash[r]
      /\ cache'[fileHash[r][1]] = << Stringify(result'[r][1]) >>
      /\ \A h \in Bytes \ {fileHash[r][1]} : cache'[h] = cache[h]

C27_KeyIsRawFingerprint ==
  []C27_RawFingerprint
  /\ [][C27_HashedBeforeFfmpeg /\ C27_WrittenUnderFingerprint]_vars

(* an entry was written for a request whose recognizer ran on the          *)
(* preprocessed file                                                       *)
C27_Witness ==
  \E r \in Req :
    /\ wroteCache[r]
    /\ finalPath[r] = << PreprocessPath(InputPath(r)) >>
    /\ cache[fileHash[r][1]] # <<>>
(* C28: a request that hits the cache completes without waiting for any    *)
(* other request: while maxConcurrent recognizers run and further requests *)
(* wait, a new request whose fingerprint is cached still reaches done, and *)
(* it changes neither the running count nor the wait list.                 *)
C28_Busy == running = maxConcurrent /\ waitList # <<>>

C28_HitPossible ==
  \A r \in Req, b \in Bytes :
    (C28_Busy /\ pc[r] = "idle" /\ Arrived(r) /\ cache[b] # <<>>) =>
      ENABLED TranscribeStart(r, b, TRUE)

C28_HitStep ==
  \A r \in Req :
    (pc[r] = "idle" /\ cacheRead'[r] = "hit") =>
      /\ pc'[r] = "done"
      /\ outcome'[r] = "resolved"
      /\ result'[r] = << Parse(cache[fileHash'[r][1]][1]) >>
      /\ running' = running
      /\ waitList' = waitList
      /\ acquired' = acquired
      /\ waited' = waited

C28_HitDoesNotWait == []C28_HitPossible /\ [][C28_HitStep]_vars

(* a request hit the cache while the slot was taken and a request waited,  *)
(* and both are still where they were                                      *)
C28_Witness ==
  \E r \in Req :
    /\ busyAtHit[r]
    /\ pc[r] = "done"
    /\ outcome[r] = "resolved"
    /\ C28_Busy
(* C29: after any sequence of requests every cache entry was written by a  *)
(* request whose recognizer exited 0 with its output file present; a       *)
(* request that fails (missing file, non-zero exit, missing output file,   *)
(* launch failure) leaves the cache unchanged.                             *)
C29_EntriesFromSuccess ==
  \A h \in Bytes :
    cache[h] # <<>> =>
      \E r \in Req :
        /\ exitPath[r] = "ok"
        /\ wroteCache[r]
        /\ fileHash[r] = <<h>>
        /\ cache[h] = << Stringify(result[r][1]) >>

C29_Fails(r) ==
  \/ outcome[r] = "none" /\ outcome'[r] = "rejected"
  \/ exitPath[r] = "none" /\ exitPath'[r] \in {"nonzero", "noart", "launch"}
  \/ pc[r] = "errored" /\ pc'[r] # "errored"

C29_FailureKeepsCache ==
  (\E r \in Req : C29_Fails(r)) => cache' = cache

C29_CacheOnlyFromSuccess ==
  []C29_EntriesFromSuccess /\ [][C29_FailureKeepsCache]_vars

(* one request left an entry, a request for the same content failed in     *)
(* the recognizer, a third one found no file; the entry is the first one's *)
C29_Witness ==
  \E r \in Req :
    /\ exitPath[r] = "ok"
    /\ wroteCache[r]
    /\ cache[fileHash[r][1]] = << Stringify(result[r][1]) >>
    /\ \E q \in Req \ {r} :
         /\ exitPath[q] \in {"nonzero", "noart", "launch"}
         /\ fileHash[q] = fileHash[r]
    /\ \E q \in Req \ {r} : exitPath[q] = "none" /\ outcome[q] = "rejected"
(* C30: the recognizer is invoked for a request only if no readable cache  *)
(* entry for its fingerprint existed at the moment of its lookup; so two   *)
(* requests for byte-identical files whose lookups both precede the first  *)
(* cache write each invoke the recognizer: requests in flight are not      *)
(* deduplicated.                                                           *)
C30_NoReadableEntry(r) == cacheRead[r] \in {"miss", "failed"}

C30_InvokedOnlyAfterMiss ==
  \A r \in Req :
    /\ whisperCalls[r] > 0 => C30_NoReadableEntry(r)
    /\ (C30_NoReadableEntry(r) /\ pc[r] \in {"running", "errored", "done"}) =>
         whisperCalls[r] = 1

(* a lookup that finds nothing readable goes on to preprocessing, whatever *)
(* the other requests are doing                                            *)
C30_MissGoesOn ==
  \A r \in Req :
    (pc[r] = "idle" /\ cacheRead'[r] \in {"miss", "failed"}) =>
      /\ pc'[r] = "preproc"
      /\ ffmpegCalls'[r] = 1
      /\ outcome'[r] = "none"

C30_NoDeduplication ==
  []C30_InvokedOnlyAfterMiss /\ [][C30_MissGoesOn]_vars

(* two requests for the same content, neither of which found an entry:     *)
(* whisper was run for both, one has written the cache, the other runs     *)
C30_Witness ==
  \E r, q \in Req :
    /\ r # q
    /\ fileHash[r] = fileHash[q]
    /\ cacheRead[r] = "miss" /\ cacheRead[q] = "miss"
    /\ whisperCalls[r] = 1 /\ whisperCalls[q] = 1
    /\ wroteCache[r]
    /\ pc[q] = "running"
(* C31: transcribe never deletes or overwrites the caller's input file.    *)
(* The only files it removes are the preprocessed file, and only when its  *)
(* path differs from the input path, and the recognizer's output file;     *)
(* when preprocessing fell back to the input no audio file is deleted.     *)
C31_InputKept ==
  \A r \in Req :
    Exists(fs, InputPath(r)) => fs'[InputPath(r)] = fs[InputPath(r)]

C31_Closing(r) == pc[r] \in {"running", "errored"} /\ pc'[r] \notin {"running", "errored"}

C31_OnlyOwnFilesRemoved ==
  \A p \in Path :
    (Exists(fs, p) /\ ~Exists(fs', p)) =>
      \E r \in Req :
        /\ pc[r] \in {"running", "errored"}
        /\ \/ p = finalPath[r][1] /\ p # InputPath(r)
           \/ p = TxtFile(finalPath[r][1])

C31_FallbackDeletesNoAudio ==
  \A r \in Req :
    (C31_Closing(r) /\ finalPath[r] = << InputPath(r) >>) =>
      /\ unlinks'[r] = unlinks[r]
      /\ \A p \in Path : p.ext # "txt" => fs'[p] = fs[p]

C31_InputFileUntouched ==
  [][C31_InputKept /\ C31_OnlyOwnFilesRemoved /\ C31_FallbackDeletesNoAudio]_vars

(* one request ran on its preprocessed file, which is gone, another fell   *)
(* back to its input; both are through and both inputs are as stored       *)
C31_Witness ==
  \E r, q \in Req :
    /\ exitPath[r] = "ok" /\ finalPath[r] = << PreprocessPath(InputPath(r)) >>
    /\ unlinks[r] = 1 /\ ~Exists(fs, PreprocessPath(InputPath(r)))
    /\ exitPath[q] \in {"ok", "nonzero"} /\ finalPath[q] = << InputPath(q) >>
    /\ fs[InputPath(r)] = bytes[r] /\ fs[InputPath(q)] = bytes[q]
(* C32: once transcribeAudio has answered a request that carried an        *)
(* uploaded file, the uploaded file no longer exists, whether              *)
(* transcription succeeded or failed; the upload is deleted only after     *)
(* transcribe has settled, never while the recognizer is using it.         *)
C32_AnsweredByHandler(r) ==
  /\ responses[r] # <<>>
  /\ responses[r][1].code \in {"", "TRANSCRIPTION_FAILED"}

C32_GoneOnceAnswered ==
  \A r \in Req : C32_AnsweredByHandler(r) => ~Exists(fs, InputPath(r))

C32_DeletedAfterSettled ==
  \A r \in Req :
    (Exists(fs, InputPath(r)) /\ ~Exists(fs', InputPath(r))) =>
      /\ Settled(r)
      /\ pc[r] \notin {"preproc", "queued", "running"}

C32_UploadDeleted == []C32_GoneOnceAnswered /\ [][C32_DeletedAfterSettled]_vars

(* a success and a failed recognition that read the upload itself, both    *)
(* answered, both uploads gone                                             *)
C32_Witness ==
  \E r, q \in Req :
    /\ responses[r] = << Response(200, "") >> /\ bytes[r] # <<>>
    /\ responses[q] = << Response(500, "TRANSCRIPTION_FAILED") >>
    /\ exitPath[q] = "nonzero" /\ finalPath[q] = << InputPath(q) >>
    /\ ~Exists(fs, InputPath(r)) /\ ~Exists(fs, InputPath(q))
(* no request is answered twice, and a request without a file is answered  *)
(* 400 NO_FILE with transcribe not called                                  *)
C33_AtMostOnce ==
  \A r \in Req :
    /\ Len(responses[r]) <= 1
    /\ pc[r] = "nofile" =>
         /\ responses[r] = << Response(400, "NO_FILE") >>
         /\ outcome[r] = "none" /\ ffmpegCalls[r] = 0 /\ cacheRead[r] = "none"

(* what transcribeAudio does when transcribe has settled *)
C33_AnswersSettled ==
  \A r \in Req :
    (Settled(r) /\ responses[r] = <<>>) =>
      \/ /\ responses'[r] = << Response(200, "") >>
         /\ outcome[r] = "resolved"
         /\ ~Exists(fs', InputPath(r))
      \/ responses'[r] = << Response(500, "TRANSCRIPTION_FAILED") >>

(* C33: every transcribeAudio invocation sends exactly one response: 400   *)
(* NO_FILE when no file was uploaded, without calling transcribe; a        *)
(* success carrying the result when transcribe resolves and the upload was *)
(* removed; 500 TRANSCRIPTION_FAILED when transcribe rejects or removing   *)
(* the upload throws.                                                      *)
C33_ExactlyOneResponse == []C33_AtMostOnce /\ [][C33_AnswersSettled]_vars
(* C34: provided the recognizer subprocess exits or fails to launch, every *)
(* transcribe call eventually settles with exactly one outcome, also when  *)
(* the subprocess reports both 'error' and 'close' and when a file         *)
(* operation inside the completion handler fails.                          *)
C34_EverySettles ==
  \A r \in Req : (pc[r] \in {"preproc", "queued", "running"}) ~> Settled(r)
RECURSIVE C35_SumOfTimes(_)
C35_SumOfTimes(S) ==
  IF S = {} THEN 0
  ELSE LET r == CHOOSE x \in S : TRUE
       IN result[r][1].processingTime + C35_SumOfTimes(S \ {r})

C35_Answered200 == {r \in Req : responses[r] = << Response(200, "") >>}

C35_MetricsMatch ==
  LET m == performanceMetrics
  IN /\ counted \subseteq C35_Answered200
     /\ m.totalTranscriptions = Cardinality(counted)
     /\ m.totalProcessingTime = C35_SumOfTimes(counted)
     /\ m.totalTranscriptions > 0 =>
          /\ m.averageProcessingTime[2] # 0
          /\ m.averageProcessingTime[1] * m.totalTranscriptions =
               m.totalProcessingTime * m.averageProcessingTime[2]
     /\ m.totalTranscriptions = 0 => m = MetricsZero

C35_MetricsStep ==
  /\ \A r \in Req :
       (responses[r] = <<>> /\ responses'[r] # <<>>) =>
         IF responses'[r] = << Response(200, "") >>
         THEN /\ counted' = counted \cup {r}
              /\ performanceMetrics'.totalTranscriptions =
                   performanceMetrics.totalTranscriptions + 1
         ELSE performanceMetrics' = performanceMetrics /\ counted' = counted
  /\ (responses' = responses /\ performanceMetrics' # performanceMetrics) =>
       (performanceMetrics' = MetricsZero /\ counted' = {})

(* C35: after any sequence of transcription requests and metric resets,    *)
(* totalTranscriptions is the number of successfully answered              *)
(* transcriptions since the last reset, totalProcessingTime the sum of     *)
(* their processingTime values, and averageProcessingTime their quotient   *)
(* whenever totalTranscriptions > 0; failed requests leave the metrics     *)
(* unchanged and a reset sets all three to 0.  Numbers are exact here, as  *)
(* they are in the program while the total stays below 2^53.               *)
C35_Metrics == []C35_MetricsMatch /\ [][C35_MetricsStep]_vars

(* a success before the last reset, one after it with a time other than 0, *)
(* and a failure                                                           *)
C35_Witness ==
  /\ Cardinality(counted) = 1
  /\ performanceMetrics.totalProcessingTime > 0
  /\ \E r \in C35_Answered200 : r \notin counted
  /\ \E q \in Req : responses[q] = << Response(500, "TRANSCRIPTION_FAILED") >>
====
